---- MODULE Spec2Model ----
(***************************************************************************)
(* Model of the Intervals.icu -> GitHub / local JSON export.               *)
(*                                                                         *)
(* Two source files are modelled:                                          *)
(*   "sync"     : src/sync.py                                              *)
(*   "workflow" : src/.github/workflows/sync.py                            *)
(* They share IntervalsSync._intervals_get and collect_training_data and   *)
(* differ in collect_latest_workout, publish_to_github and main.           *)
(*                                                                         *)
(* Numbers of the fitness step are fixed-point integers in hundredths      *)
(* (5000 stands for 50.00); Python values are records [t, v].              *)
(***************************************************************************)
EXTENDS Integers, Sequences, FiniteSets, TLC

VARIABLES
    variant,        \* which source file runs: "sync" or "workflow"
    entry,          \* "main": main() is run; "publish": publish_to_github is called directly
    args,           \* parsed command line (argparse namespace)
    config,         \* content of .sync_config.json ({} when the file is absent)
    sync,           \* the IntervalsSync object (fields set by __init__)
    pc,             \* position of the run
    reqs,           \* HTTP requests issued so far, in order
    yresp,          \* response of the yesterday wellness call (input of the fitness step)
    fitness,        \* ctl / atl / ramp_rate / tsb of collect_training_data
    data,           \* summary document returned by collect_training_data
    latest_workout, \* document returned by collect_latest_workout
    files,          \* local files written by save_to_file
    remote,         \* paths whose PUT was accepted by the destination store
    raised,         \* exception that left the entry point ("" when none)
    console,        \* notable console lines printed
    retval,         \* return value of a direct publish_to_github call
    activities      \* the activity list fetched by collect_training_data

vars == <<variant, entry, args, config, sync, pc, reqs, yresp, fitness, data,
          latest_workout, files, remote, raised, console, retval, activities>>

-----------------------------------------------------------------------------
(* Bounds *)

\* yesterday's metrics range over k * 12.50 for k in 0..MaxLoadSteps
MaxLoadSteps == 4
\* number of distinct version tokens the destination store may hand out
MaxSha == 2
\* longest list of activities the source returns in the summary runs
MaxActivities == 2

-----------------------------------------------------------------------------
(* Python values *)

\* string-or-None values (credentials, command line values)
None == [t |-> "none", v |-> ""]
Str(s) == [t |-> "str", v |-> s]

\* bool(x) for a string-or-None value
Truthy(x) == x.t = "str" /\ x.v # ""

\* Python `a or b`
PyOr(a, b) == IF Truthy(a) THEN a ELSE b

\* f-string interpolation of a string-or-None value: None prints as "None"
Format(x) == IF x.t = "none" THEN "None" ELSE x.v

\* JSON values of a wellness record field / a sha:
\*   absent key, null, number (hundredths), string
JAbsent == [t |-> "absent", v |-> 0]
JNull == [t |-> "null", v |-> 0]
JNum(n) == [t |-> "num", v |-> n]
JStr(k) == [t |-> "str", v |-> k]

\* dict.get(key): an absent key reads as None
DictGet(x) == IF x.t = "absent" THEN JNull ELSE x

\* bool(x) for a JSON value: None and 0 are falsy, "" is falsy
JTruthy(x) ==
    \/ x.t = "num" /\ x.v # 0
    \/ x.t = "str" /\ x.v # 0


-----------------------------------------------------------------------------
(* HTTP responses of the two external services (inputs of the run) *)

\* a response: the call fails below HTTP (neterr), or carries a status and a
\* body that parses as JSON or not
NetErr(b) == [neterr |-> TRUE, status |-> 0, parsable |-> FALSE, body |-> b]
Http(st, b) == [neterr |-> FALSE, status |-> st, parsable |-> TRUE, body |-> b]
Garbled(st, b) == [neterr |-> FALSE, status |-> st, parsable |-> FALSE, body |-> b]

\* requests.Response.raise_for_status: raises HTTPError for 4xx and 5xx
RaisesForStatus(status) == status >= 400 /\ status < 600

\* base64 of a string (injective; kept symbolic)
B64(s) == "b64(" \o s \o ")"

-----------------------------------------------------------------------------
(* IntervalsSync.__init__ *)

NoSync == [athlete_id |-> None, intervals_auth |-> "", github_token |-> None,
           github_repo |-> None]

IntervalsSyncInit(athlete_id, intervals_api_key, github_token, github_repo) ==
    [athlete_id |-> athlete_id,
     intervals_auth |-> B64("API_KEY:" \o Format(intervals_api_key)),
     github_token |-> github_token,
     github_repo |-> github_repo]

-----------------------------------------------------------------------------
(* IntervalsSync._intervals_get *)

INTERVALS_BASE_URL == "https://intervals.icu/api/v1"

IntervalsUrl(s, endpoint) ==
    IF endpoint # ""
    THEN INTERVALS_BASE_URL \o "/athlete/" \o Format(s.athlete_id) \o "/" \o endpoint
    ELSE INTERVALS_BASE_URL \o "/athlete/" \o Format(s.athlete_id)

\* the request _intervals_get sends
IntervalsRequest(s, endpoint, params) ==
    [method |-> "GET",
     url |-> IntervalsUrl(s, endpoint),
     auth |-> "Basic " \o s.intervals_auth,
     params |-> params]

\* IntervalsGet without raise_for_status: an error status returns its body
IntervalsGetNoRaise(resp) ==
    IF resp.neterr THEN [exc |-> "ConnectionError", value |-> resp.body]
    ELSE IF ~resp.parsable THEN [exc |-> "JSONDecodeError", value |-> resp.body]
    ELSE [exc |-> "", value |-> resp.body]

\* outcome of _intervals_get on a response: the exception it raises ("" when
\* it returns) and the value it returns
IntervalsGet(resp) ==
    IF resp.neterr THEN [exc |-> "ConnectionError", value |-> resp.body]
    ELSE IF RaisesForStatus(resp.status) THEN [exc |-> "HTTPError", value |-> resp.body]
    ELSE IF ~resp.parsable THEN [exc |-> "JSONDecodeError", value |-> resp.body]
    ELSE [exc |-> "", value |-> resp.body]

-----------------------------------------------------------------------------
(* collect_training_data: yesterday's fitness with decay (try block) *)

\* the doubles math.exp(-1/42) = 0.97647168665224326478... and
\* math.exp(-1/7) = 0.86687789975018159083..., as their first twenty
\* decimals in groups of four (d[1] / 10^4 + d[2] / 10^8 + ...)
CTL_DECAY == <<9764, 7168, 6652, 2432, 6478>>
ATL_DECAY == <<8668, 7789, 9750, 1815, 9083>>

\* round(x * d, 2) for 0 <= x <= 200000 in hundredths: the product is
\* computed exactly, group by group with carries, and rounded to the nearest
\* hundredth (no product of these decays lies on a half)
RoundMulPos(x, d) ==
    LET carry[i \in 1..(Len(d) + 1)] ==
            IF i = Len(d) + 1 THEN 0 ELSE (x * d[i] + carry[i + 1]) \div 10000
        top == x * d[1] + carry[2]
    IN (top \div 10000) + (IF top % 10000 >= 5000 THEN 1 ELSE 0)

\* round(x * d, 2) for a number x in hundredths
RoundMul(x, d) == IF x >= 0 THEN RoundMulPos(x, d) ELSE 0 - RoundMulPos(0 - x, d)

\* round(y, 2) for y in units of 10^-4, result in hundredths
Round2(y) == IF y >= 0 THEN (y + 50) \div 100 ELSE 0 - ((0 - y + 50) \div 100)

\* a JSON body: a list or a dict with its entries, null, or a scalar
Body(shape, items) == [shape |-> shape, items |-> items]

\* bool(body): empty containers, null are falsy (scalars here are non-zero)
BodyTruthy(b) ==
    \/ b.shape \in {"list", "dict"} /\ Len(b.items) > 0
    \/ b.shape = "scalar"

\* a wellness record without ctl / atl / rampRate, i.e. what {} reads as
EmptyWellness == [ctl |-> JAbsent, atl |-> JAbsent, rampRate |-> JAbsent]

\* `yesterday_wellness[0]` raises on a non-empty dict (KeyError) and on a scalar
YesterdayIndexRaises(b) == BodyTruthy(b) /\ b.shape # "list"

\* yesterday_data = yesterday_wellness[0] if yesterday_wellness else {}
YesterdayData(b) == IF BodyTruthy(b) THEN b.items[1] ELSE EmptyWellness

\* `value * decay` raises TypeError on a (truthy) string
DecayRaises(y) == JTruthy(y) /\ y.t = "str"

\* round(y * decay, 2) if y else None
Decayed(y, d) == IF JTruthy(y) THEN JNum(RoundMul(y.v, d)) ELSE JNull

\* the try block, lines 86-99: the values bound when it ends and whether it
\* ended by an exception; a name not yet bound reads null here
FitnessTry(r) ==
    LET yd == YesterdayData(r.value)
        yc == DictGet(yd.ctl)
        ya == DictGet(yd.atl)
        yr == DictGet(yd.rampRate)
        unbound == [exc |-> TRUE, ctl |-> JNull, atl |-> JNull, ramp_rate |-> JNull]
    IN  IF r.exc # "" \/ YesterdayIndexRaises(r.value) THEN unbound
        ELSE IF DecayRaises(yc) THEN unbound
        ELSE IF DecayRaises(ya)
            THEN [unbound EXCEPT !.ctl = Decayed(yc, CTL_DECAY)]
        ELSE IF DecayRaises(yr)
            THEN [unbound EXCEPT !.ctl = Decayed(yc, CTL_DECAY),
                                 !.atl = Decayed(ya, ATL_DECAY)]
        ELSE [exc |-> FALSE,
              ctl |-> Decayed(yc, CTL_DECAY),
              atl |-> Decayed(ya, ATL_DECAY),
              ramp_rate |-> Decayed(yr, CTL_DECAY)]

\* FitnessExcept that resets ramp_rate only
FitnessExceptRampOnly(t) ==
    [ctl |-> t.ctl, atl |-> t.atl, ramp_rate |-> IF t.exc THEN JNull ELSE t.ramp_rate]

\* the except clause, lines 100-101: ctl = atl = ramp_rate = None
FitnessExcept(t) ==
    IF t.exc THEN [ctl |-> JNull, atl |-> JNull, ramp_rate |-> JNull]
    ELSE [ctl |-> t.ctl, atl |-> t.atl, ramp_rate |-> t.ramp_rate]

\* Tsb that reads a missing atl as 0
TsbAtlDefault(ctl, atl) ==
    IF ctl # JNull THEN JNum(Round2((ctl.v - (IF atl # JNull THEN atl.v ELSE 0)) * 100))
    ELSE JNull

\* line 103: tsb = round(ctl - atl, 2) if both are not None else None
Tsb(ctl, atl) ==
    IF ctl # JNull /\ atl # JNull THEN JNum(Round2((ctl.v - atl.v) * 100)) ELSE JNull

\* lines 85-103 as a whole: the fitness snapshot
Fitness(r) ==
    LET f == FitnessExcept(FitnessTry(r))
    IN [ctl |-> f.ctl, atl |-> f.atl, tsb |-> Tsb(f.ctl, f.atl), ramp_rate |-> f.ramp_rate]

NoFitness == [ctl |-> JNull, atl |-> JNull, tsb |-> JNull, ramp_rate |-> JNull]

-----------------------------------------------------------------------------
(* collect_training_data: quick_stats and _format_activities *)

\* an activity type is a string, kept as its sequence of words so that the
\* substring test `"Virtual" in type` can be computed
RIDE == <<"Ride">>
VIRTUAL_RIDE == <<"Virtual", "Ride">>

\* the activity at position i of the upstream answer: id, date and name are
\* strings distinct per position; moving_time is in whole seconds and
\* icu_training_load in whole units (or absent, or null)
ActivityAt(i, type, moving_time, icu_training_load) ==
    [id |-> JStr(100 + i), start_date_local |-> JStr(200 + i), type |-> type,
     name |-> JStr(300 + i), moving_time |-> moving_time,
     icu_training_load |-> icu_training_load]

\* line 115: act.get("moving_time", 0): the default replaces an absent key only
MovingTimeOrDefault(act) ==
    IF act.moving_time.t = "absent" THEN JNum(0) ELSE act.moving_time

\* line 115: sum(...) of the values above raises TypeError on a None
QuickStatsRaises(acts) ==
    \E i \in 1..Len(acts) : MovingTimeOrDefault(acts[i]).t # "num"

\* line 115: sum(act.get("moving_time", 0) for act in activities), seconds
SumMovingTime(acts) ==
    LET f[i \in 0..Len(acts)] ==
            IF i = 0 THEN 0 ELSE f[i - 1] + MovingTimeOrDefault(acts[i]).v
    IN f[Len(acts)]

\* line 117: sum(load for act in activities if act.get("icu_training_load"))
SumTrainingLoad(acts) ==
    LET f[i \in 0..Len(acts)] ==
            IF i = 0 THEN 0
            ELSE IF JTruthy(DictGet(acts[i].icu_training_load))
                 THEN f[i - 1] + acts[i].icu_training_load.v
                 ELSE f[i - 1]
    IN f[Len(acts)]

\* 2^k mod 200
Pow2Mod200(k) ==
    LET f[j \in 0..k] == IF j = 0 THEN 1 ELSE (2 * f[j - 1]) % 200
    IN f[k]

\* the binary exponent e of m / 200 (2^e <= m / 200 < 2^(e+1)), m >= 1
RECURSIVE ExponentUp(_, _)
ExponentUp(m, b) == IF 2 * b <= m THEN 1 + ExponentUp(m, 2 * b) ELSE 0
RECURSIVE ExponentDown(_)
ExponentDown(m) == IF m >= 200 THEN 0 ELSE 1 + ExponentDown(2 * m)
BinaryExponent(m) == IF m >= 200 THEN ExponentUp(m, 200) ELSE 0 - ExponentDown(m)

\* round(m / 200, 2) in hundredths for odd m, i.e. for a quotient that lies
\* on a half hundredth: Python rounds the double nearest to m / 200.  That
\* double is m / 200 itself when 25 divides m (the half goes to the even
\* hundredth); otherwise it lies below or above m / 200 according to the
\* remainder of m * 2^(52 - e) by 200 (never 100)
RoundHalfHundredth(m) ==
    LET lo == (m - 1) \div 2
        r == ((m % 200) * Pow2Mod200(52 - BinaryExponent(m))) % 200
    IN IF m % 25 = 0 THEN (IF lo % 2 = 0 THEN lo ELSE lo + 1)
       ELSE IF r < 100 THEN lo ELSE lo + 1

\* round(seconds / 3600, 2), in hundredths of an hour; seconds = 18 * odd
\* is the case of a quotient on a half hundredth
RoundHours(seconds) ==
    IF seconds % 18 = 0 /\ (seconds \div 18) % 2 = 1
    THEN RoundHalfHundredth(seconds \div 18)
    ELSE (2 * seconds + 36) \div 72

\* lines 114-118: "quick_stats"; round(x, 0) of a whole number is the number
QuickStats(acts) ==
    [total_training_hours |-> RoundHours(SumMovingTime(acts)),
     total_activities |-> Len(acts),
     total_tss |-> SumTrainingLoad(acts)]

\* line 150: f"activity_{i+1}"
ActivityLabel(n) == [t |-> "activity_", v |-> n]

\* line 152: the literal "Training Session"
TrainingSession == JStr(1)

\* line 152: "Virtual" in act.get("type", "")
HasVirtual(type) == \E k \in 1..Len(type) : type[k] = "Virtual"

\* line 152: act.get("name", ""): an absent name reads as ""
NameOrEmpty(act) == IF act.name.t = "absent" THEN JStr(0) ELSE act.name

\* line 153: (act.get("moving_time") or 0)
MovingTimeOrZero(act) ==
    IF JTruthy(DictGet(act.moving_time)) THEN act.moving_time.v ELSE 0

FormatActivitiesEveryName(acts, anonymize) ==
    [i \in 1..Len(acts) |->
        LET act == acts[i]
        IN [id |-> IF anonymize THEN ActivityLabel((i - 1) + 1) ELSE act.id,
            date |-> act.start_date_local,
            type |-> act.type,
            name |-> IF anonymize THEN TrainingSession ELSE NameOrEmpty(act),
            duration_hours |-> RoundHours(MovingTimeOrZero(act)),
            tss |-> DictGet(act.icu_training_load)]]

\* lines 145-162: _format_activities; enumerate counts i from 0, the model's
\* positions are i + 1
FormatActivities(acts, anonymize) ==
    [i \in 1..Len(acts) |->
        LET act == acts[i]
        IN [id |-> IF anonymize THEN ActivityLabel((i - 1) + 1) ELSE act.id,
            date |-> act.start_date_local,
            type |-> act.type,
            name |-> IF anonymize /\ ~HasVirtual(act.type)
                     THEN TrainingSession ELSE NameOrEmpty(act),
            duration_hours |-> RoundHours(MovingTimeOrZero(act)),
            tss |-> DictGet(act.icu_training_load)]]

-----------------------------------------------------------------------------
(* collect_latest_workout *)

\* an element of a response / a document: a dict with an id (id 0: the empty
\* dict {}) or a scalar
Dict(id) == [kind |-> "dict", id |-> id]
Scalar(id) == [kind |-> "scalar", id |-> id]
EmptyDoc == Dict(0)

\* the request parameters of the latest-workout query
LatestParams(v) == IF v = "workflow" THEN "limit=1&order=desc&_cb" ELSE "limit=1&order=desc"

\* CollectLatestWorkout whose except clause catches HTTP errors only
CollectLatestWorkoutNarrow(v, r) ==
    LET b == r.value
    IN  IF r.exc = "HTTPError" THEN [doc |-> EmptyDoc, warned |-> TRUE, exc |-> ""]
        ELSE IF r.exc # "" THEN [doc |-> EmptyDoc, warned |-> FALSE, exc |-> r.exc]
        ELSE IF BodyTruthy(b) /\ b.shape = "list"
            THEN [doc |-> b.items[1], warned |-> FALSE, exc |-> ""]
        ELSE IF b.shape = "dict"
            THEN [doc |-> IF Len(b.items) > 0 THEN b.items[1] ELSE EmptyDoc,
                  warned |-> FALSE, exc |-> ""]
        ELSE [doc |-> EmptyDoc, warned |-> FALSE, exc |-> ""]

\* lines 50-61 (sync) / 55-66 (workflow): the returned document, whether the
\* warning of the except clause was printed, and the exception that leaves
\* the method (none: `except Exception` catches every failure of the call)
CollectLatestWorkout(v, r) ==
    LET b == r.value
    IN  IF r.exc # "" THEN [doc |-> EmptyDoc, warned |-> TRUE, exc |-> ""]
        ELSE IF BodyTruthy(b) /\ b.shape = "list"
            THEN IF v = "workflow" /\ b.items[1].kind # "dict"
                 THEN [doc |-> EmptyDoc, warned |-> TRUE, exc |-> ""]   \* act.get raises, caught
                 ELSE [doc |-> b.items[1], warned |-> FALSE, exc |-> ""]
        ELSE IF b.shape = "dict"
            THEN [doc |-> IF Len(b.items) > 0 THEN b.items[1] ELSE EmptyDoc,
                  warned |-> FALSE, exc |-> ""]
        ELSE [doc |-> EmptyDoc, warned |-> FALSE, exc |-> ""]

-----------------------------------------------------------------------------
(* publish_to_github *)

GITHUB_API_URL == "https://api.github.com"

GithubUrl(s, filepath) ==
    GITHUB_API_URL \o "/repos/" \o Format(s.github_repo) \o "/contents/" \o filepath

GithubAuth(s) == "token " \o Format(s.github_token)

\* body of a contents response: the sha it carries (JAbsent when it has none)
ShaBody(sha) == [sha |-> sha]

\* body of the answer to an accepted PUT: {"content": {"html_url": ...}}
WrittenBody(s, filepath) ==
    [content |-> [html_url |-> "https://github.com/" \o Format(s.github_repo)
                               \o "/blob/main/" \o filepath]]

\* ProbeSha with the probed sha dropped: current_sha is never bound
ProbeShaDropped(probe) == JNull

\* the try block around the GET probe: the sha bound after it.  Any
\* exception (network failure, unparsable body, no "sha" key) is swallowed
\* and leaves None.
ProbeSha(probe) ==
    IF probe.neterr THEN JNull
    ELSE IF probe.status # 200 THEN JNull
    ELSE IF ~probe.parsable THEN JNull
    ELSE DictGet(probe.body.sha)

\* json.dumps + base64 of a document (injective; kept symbolic)
Content(doc) == [b64json |-> doc]

\* Payload with the sha key set unconditionally
PayloadAlwaysSha(message, doc, sha) ==
    [message |-> message, content |-> Content(doc), branch |-> "main", sha |-> sha]

\* the PUT payload: "sha" is a key only when the probed sha is truthy
Payload(message, doc, sha) ==
    LET base == [message |-> message, content |-> Content(doc), branch |-> "main"]
    IN IF JTruthy(sha) THEN base @@ [sha |-> sha] ELSE base

ProbeExchange(s, filepath, probe) ==
    [method |-> "GET", url |-> GithubUrl(s, filepath), auth |-> GithubAuth(s),
     resp |-> probe]

PutExchange(s, filepath, payload, put) ==
    [method |-> "PUT", url |-> GithubUrl(s, filepath), auth |-> GithubAuth(s),
     payload |-> payload, resp |-> put]

\* the destination store wrote the object
Accepted(put) == ~put.neterr /\ put.status \in {200, 201}

\* src/sync.py, lines 176-204: the exchanges made, the exception raised (""
\* when it returns) and the returned URL
PublishSync(s, doc, filepath, probe, put) ==
    IF ~Truthy(s.github_token) \/ ~Truthy(s.github_repo)
    THEN [exchanges |-> <<>>, exc |-> "ValueError", ret |-> ""]
    ELSE LET payload == Payload("Update " \o filepath, doc, ProbeSha(probe))
             ex == <<ProbeExchange(s, filepath, probe),
                     PutExchange(s, filepath, payload, put)>>
         IN  IF put.neterr THEN [exchanges |-> ex, exc |-> "ConnectionError", ret |-> ""]
             ELSE IF RaisesForStatus(put.status)
                 THEN [exchanges |-> ex, exc |-> "HTTPError", ret |-> ""]
             ELSE [exchanges |-> ex, exc |-> "",
                   ret |-> "https://raw.githubusercontent.com/" \o Format(s.github_repo)
                           \o "/main/" \o filepath]

\* src/.github/workflows/sync.py, lines 181-221 (a module-level function
\* taking the object as its first argument; the commit message is an
\* argument of the caller there)
PublishWorkflow(s, doc, filepath, probe, put) ==
    LET payload == Payload("Update " \o filepath, doc, ProbeSha(probe))
        ex == <<ProbeExchange(s, filepath, probe),
                PutExchange(s, filepath, payload, put)>>
    IN  IF put.neterr THEN [exchanges |-> ex, exc |-> "ConnectionError", ret |-> ""]
        ELSE IF put.status \in {200, 201}
            THEN \* line 217: return response.json()["content"]["html_url"]
                 IF ~put.parsable
                 THEN [exchanges |-> ex, exc |-> "JSONDecodeError", ret |-> ""]
                 ELSE IF "content" \notin DOMAIN put.body
                 THEN [exchanges |-> ex, exc |-> "KeyError", ret |-> ""]
                 ELSE [exchanges |-> ex, exc |-> "", ret |-> put.body.content.html_url]
        ELSE [exchanges |-> ex, exc |-> "", ret |-> ""]

PublishToGithub(v, s, doc, filepath, probe, put) ==
    IF v = "workflow" THEN PublishWorkflow(s, doc, filepath, probe, put)
    ELSE PublishSync(s, doc, filepath, probe, put)

-----------------------------------------------------------------------------
(* Inputs: command line, config file, responses of the two services *)

CredFields == {"athlete_id", "intervals_key", "github_token", "github_repo"}

FullCreds == [athlete_id |-> Str("i12345"), intervals_key |-> Str("key"),
              github_token |-> Str("ghp"), github_repo |-> Str("owner/repo")]

\* credentials c with the fields of M left out (None)
Without(c, M) == [f \in CredFields |-> IF f \in M THEN None ELSE c[f]]

\* sets of missing credentials tried: none, or any single one
MissingSets == {{}} \cup {{f} : f \in CredFields}

\* the ways a run is configured: credentials on the command line (no config
\* file), or in the config file (none on the command line); --anonymize is
\* store_true with default=True, so main always passes anonymize = True
Configurations ==
    {[args |-> Without(FullCreds, M) @@ [output |-> o, anonymize |-> TRUE],
      config |-> Without(FullCreds, CredFields)] : M \in MissingSets, o \in {None, Str("out.json")}}
    \cup
    {[args |-> Without(FullCreds, CredFields) @@ [output |-> o, anonymize |-> TRUE],
      config |-> Without(FullCreds, M)] : M \in MissingSets, o \in {None, Str("out.json")}}

\* the object was built without an athlete id or without an API key
SourceCredMissing(s) ==
    s.athlete_id = None \/ s.intervals_auth = B64("API_KEY:None")

DestCredMissing(s) == ~Truthy(s.github_token) \/ ~Truthy(s.github_repo)

\* failures of a source call: network failure, server error, unparsable body
Failures(b) == {NetErr(b), Http(500, b), Garbled(200, b)}

\* what the source API answers: it rejects requests that carry no valid
\* identity, and otherwise answers with one of the bodies `oks` or fails
IntervalsResponses(s, oks) ==
    LET b0 == CHOOSE b \in oks : TRUE
    IN IF SourceCredMissing(s) THEN {Http(401, b0), Http(403, b0)}
       ELSE {Http(200, b) : b \in oks} \cup Failures(b0)

ProfileBodies == {Body("dict", <<>>)}
ActivityBodies ==
    {Body("list", <<>>),
     Body("list", <<ActivityAt(1, RIDE, JNum(3600), JNum(50)),
                    ActivityAt(2, VIRTUAL_RIDE, JNum(1800), JNum(25))>>),
     Body("list", <<ActivityAt(1, RIDE, JNull, JNum(50))>>)}
WellnessBodies == {Body("list", <<>>)}
EventBodies == {Body("list", <<>>)}
LatestBodies == {Body("list", <<Dict(1)>>), Body("list", <<>>), Body("dict", <<Dict(1)>>),
                 Body("dict", <<>>), Body("null", <<>>), Body("list", <<Scalar(1)>>),
                 Body("list", <<Dict(1), Dict(2)>>), Body("scalar", <<>>)}

\* values a field of yesterday's wellness record may hold: absent, null, a
\* string, a number k * 12.50, or 267.55 (whose decayed value 261.2499997...
\* lies next to a half hundredth)
LoadValues ==
    {JAbsent, JNull, JStr(1), JNum(26755)} \cup {JNum(k * 1250) : k \in 0..MaxLoadSteps}
RampValues == LoadValues \cup {JNum(0 - 125)}

Wellness(c, a, r) == [ctl |-> c, atl |-> a, rampRate |-> r]

\* every body of the yesterday wellness call
YesterdayBodiesAll ==
    {Body("list", <<Wellness(c, a, r)>>) : c \in LoadValues, a \in LoadValues, r \in RampValues}
    \cup {Body("list", <<>>), Body("dict", <<>>), Body("dict", <<EmptyWellness>>)}

\* the bodies tried within a whole run
YesterdayBodiesRun ==
    {Body("list", <<>>),
     Body("list", <<Wellness(JNum(5000), JNum(3750), JNum(0 - 125))>>),
     Body("list", <<Wellness(JNum(5000), JAbsent, JNum(0))>>),
     Body("list", <<Wellness(JNum(5000), JNum(3750), JStr(1))>>)}

\* what the destination store answers to the GET probe
ProbeResponses(s) ==
    IF DestCredMissing(s) THEN {Http(401, ShaBody(JAbsent)), Http(404, ShaBody(JAbsent))}
    ELSE {Http(200, ShaBody(JStr(k))) : k \in 1..MaxSha}
         \cup {Http(200, ShaBody(JAbsent)), Garbled(200, ShaBody(JAbsent)),
               Http(404, ShaBody(JAbsent)), NetErr(ShaBody(JAbsent))}

\* what the destination store answers to the PUT
PutResponses(s, filepath) ==
    IF DestCredMissing(s) THEN {Http(401, ShaBody(JAbsent)), Http(404, ShaBody(JAbsent))}
    ELSE {Http(200, WrittenBody(s, filepath)), Http(201, WrittenBody(s, filepath)),
          Http(200, ShaBody(JStr(1))), Garbled(200, ShaBody(JAbsent)),
          Http(409, ShaBody(JAbsent)), Http(422, ShaBody(JAbsent)), NetErr(ShaBody(JAbsent))}

-----------------------------------------------------------------------------
(* State *)

NoDoc == [fitness |-> NoFitness, total_activities |-> 0 - 1,
          quick_stats |-> [total_training_hours |-> 0, total_activities |-> 0 - 1,
                           total_tss |-> 0],
          recent_activities |-> <<>>]
NoResp == NetErr(Body("null", <<>>))

IntervalsExchange(s, endpoint, params, resp) ==
    IntervalsRequest(s, endpoint, params) @@ [resp |-> resp]

\* main() is about to run
InitMain ==
    /\ entry = "main"
    /\ variant \in {"sync", "workflow"}
    /\ \E c \in Configurations : args = c.args /\ config = c.config
    /\ sync = NoSync
    /\ pc = "config"
    /\ latest_workout = EmptyDoc

\* publish_to_github is about to be called on a constructed object
InitPublish ==
    /\ entry = "publish"
    /\ variant \in {"sync", "workflow"}
    /\ args = Without(FullCreds, CredFields) @@ [output |-> None, anonymize |-> TRUE]
    /\ config = Without(FullCreds, CredFields)
    /\ \E M \in {{}, {"github_token"}, {"github_repo"}}, e \in {None, Str("")} :
         LET c == [f \in CredFields |-> IF f \in M THEN e ELSE FullCreds[f]]
         IN sync = IntervalsSyncInit(c.athlete_id, c.intervals_key, c.github_token, c.github_repo)
    /\ pc = "call_publish"
    /\ latest_workout \in {EmptyDoc, Dict(1)}

Init ==
    /\ InitMain \/ InitPublish
    /\ reqs = <<>>
    /\ yresp = NoResp
    /\ fitness = NoFitness
    /\ data = NoDoc
    /\ files = {}
    /\ remote = {}
    /\ raised = ""
    /\ console = {}
    /\ retval = ""
    /\ activities = <<>>

-----------------------------------------------------------------------------
(* main, lines 222-235: resolve the configuration and build the object *)

MainConfig ==
    /\ pc = "config"
    /\ sync' = IntervalsSyncInit(PyOr(args.athlete_id, config.athlete_id),
                                 PyOr(args.intervals_key, config.intervals_key),
                                 PyOr(args.github_token, config.github_token),
                                 PyOr(args.github_repo, config.github_repo))
    /\ pc' = "profile"
    /\ UNCHANGED <<variant, entry, args, config, reqs, yresp, fitness, data,
                   latest_workout, files, remote, raised, console, retval, activities>>

-----------------------------------------------------------------------------
(* collect_training_data, one action per source call *)

\* an exception that nothing catches ends the run
Abort(exc) == pc' = "aborted" /\ raised' = exc

\* line 69: athlete = self._intervals_get("")
FetchProfile ==
    /\ pc = "profile"
    /\ \E resp \in IntervalsResponses(sync, ProfileBodies) :
         LET r == IntervalsGet(resp)
         IN /\ reqs' = Append(reqs, IntervalsExchange(sync, "", "", resp))
            /\ IF r.exc # "" THEN Abort(r.exc)
               ELSE pc' = "activities" /\ raised' = raised
    /\ UNCHANGED <<variant, entry, args, config, sync, yresp, fitness, data,
                   latest_workout, files, remote, console, retval, activities>>

\* line 79: activities = self._intervals_get("activities", window)
FetchActivities ==
    /\ pc = "activities"
    /\ \E resp \in IntervalsResponses(sync, ActivityBodies) :
         LET r == IntervalsGet(resp)
         IN /\ reqs' = Append(reqs, IntervalsExchange(sync, "activities", "oldest&newest", resp))
            /\ IF r.exc # "" THEN Abort(r.exc) /\ activities' = activities
               ELSE pc' = "wellness" /\ raised' = raised /\ activities' = r.value.items
    /\ UNCHANGED <<variant, entry, args, config, sync, yresp, fitness, data,
                   latest_workout, files, remote, console, retval>>

\* line 82: wellness = self._intervals_get("wellness", window)
FetchWellness ==
    /\ pc = "wellness"
    /\ \E resp \in IntervalsResponses(sync, WellnessBodies) :
         LET r == IntervalsGet(resp)
         IN /\ reqs' = Append(reqs, IntervalsExchange(sync, "wellness", "oldest&newest", resp))
            /\ IF r.exc # "" THEN Abort(r.exc)
               ELSE pc' = "yesterday" /\ raised' = raised
    /\ UNCHANGED <<variant, entry, args, config, sync, yresp, fitness, data,
                   latest_workout, files, remote, console, retval, activities>>

\* lines 85-103: yesterday's wellness, decay, tsb; never raises
FetchYesterday(bodies) ==
    /\ pc = "yesterday"
    /\ \E resp \in IntervalsResponses(sync, bodies) :
         /\ reqs' = Append(reqs, IntervalsExchange(sync, "wellness", "yesterday", resp))
         /\ yresp' = resp
         /\ fitness' = Fitness(IntervalsGet(resp))
    /\ pc' = "events"
    /\ UNCHANGED <<variant, entry, args, config, sync, data, latest_workout,
                   files, remote, raised, console, retval, activities>>

\* lines 110-143: the summary document (the parts modelled)
Summary(acts, fit, anonymize) ==
    [fitness |-> fit,
     total_activities |-> Len(acts),
     quick_stats |-> QuickStats(acts),
     recent_activities |-> FormatActivities(acts, anonymize)]

\* lines 106-143: events = self._intervals_get("events", ahead); return data
FetchEvents ==
    /\ pc = "events"
    /\ \E resp \in IntervalsResponses(sync, EventBodies) :
         LET r == IntervalsGet(resp)
         IN /\ reqs' = Append(reqs, IntervalsExchange(sync, "events", "oldest&newest", resp))
            /\ IF r.exc # "" THEN Abort(r.exc) /\ data' = data
               ELSE IF QuickStatsRaises(activities) THEN Abort("TypeError") /\ data' = data
               ELSE /\ pc' = "workout"
                    /\ raised' = raised
                    /\ data' = Summary(activities, fitness, args.anonymize)
    /\ UNCHANGED <<variant, entry, args, config, sync, yresp, fitness,
                   latest_workout, files, remote, console, retval, activities>>

-----------------------------------------------------------------------------
(* main, line 241: latest_workout = sync.collect_latest_workout() *)

FetchLatestWorkout ==
    /\ pc = "workout"
    /\ \E resp \in IntervalsResponses(sync, LatestBodies) :
         LET w == CollectLatestWorkout(variant, IntervalsGet(resp))
         IN /\ reqs' = Append(reqs, IntervalsExchange(sync, "activities",
                                                     LatestParams(variant), resp))
            /\ latest_workout' = w.doc
            /\ console' = IF w.warned THEN console \cup {"could not fetch latest workout"}
                          ELSE console
            /\ IF w.exc # "" THEN Abort(w.exc)
               ELSE pc' = "output1" /\ raised' = raised
    /\ UNCHANGED <<variant, entry, args, config, sync, yresp, fitness, data,
                   files, remote, retval, activities>>

-----------------------------------------------------------------------------
(* main, lines 243-249: deliver both documents *)

SUMMARY_PATH == "latest.json"
WORKOUT_PATH == "latest-workout.json"

\* a path now holds a document (any older content is replaced)
Store(store, path, doc) ==
    {f \in store : f.path # path} \cup {[path |-> path, content |-> doc]}

\* what a file holds when json.dump fails after open(path, 'w') truncated it:
\* a prefix of the document that does not parse
Truncated == [truncated |-> TRUE]

\* save_to_file, lines 206-209: open(path, 'w') fails and leaves the files
\* as they are, or it truncates the file and json.dump then writes the
\* document or fails part-way
SaveToFile(doc, path, next) ==
    \E outcome \in {"written", "open fails", "write fails"} :
        IF outcome = "written"
        THEN /\ files' = Store(files, path, doc)
             /\ pc' = next
             /\ raised' = raised
        ELSE /\ files' = IF outcome = "open fails" THEN files
                         ELSE Store(files, path, Truncated)
             /\ Abort("OSError")

\* one call of sync.publish_to_github from main of src/sync.py
PublishFromMain(doc, path, next, lines) ==
    \E probe \in ProbeResponses(sync), put \in PutResponses(sync, path) :
        LET o == PublishSync(sync, doc, path, probe, put)
        IN /\ reqs' = reqs \o o.exchanges
           /\ remote' = IF Len(o.exchanges) = 2 /\ Accepted(put)
                        THEN Store(remote, path, doc) ELSE remote
           /\ IF o.exc # "" THEN Abort(o.exc) /\ console' = console
              ELSE pc' = next /\ raised' = raised /\ console' = console \cup lines

\* line 244
SaveSummary ==
    /\ pc = "output1" /\ variant = "sync" /\ Truthy(args.output)
    /\ SaveToFile(data, SUMMARY_PATH, "output2")
    /\ UNCHANGED <<variant, entry, args, config, sync, reqs, yresp, fitness, data,
                   latest_workout, remote, console, retval, activities>>

\* line 245
SaveWorkout ==
    /\ pc = "output2" /\ variant = "sync" /\ Truthy(args.output)
    /\ SaveToFile(latest_workout, WORKOUT_PATH, "done")
    /\ UNCHANGED <<variant, entry, args, config, sync, reqs, yresp, fitness, data,
                   latest_workout, remote, console, retval, activities>>

\* line 247
PublishSummary ==
    /\ pc = "output1" /\ variant = "sync" /\ ~Truthy(args.output)
    /\ PublishFromMain(data, SUMMARY_PATH, "output2", {})
    /\ UNCHANGED <<variant, entry, args, config, sync, yresp, fitness, data,
                   latest_workout, files, retval, activities>>

\* lines 248-249
PublishWorkout ==
    /\ pc = "output2" /\ variant = "sync" /\ ~Truthy(args.output)
    /\ PublishFromMain(latest_workout, WORKOUT_PATH, "done", {"successfully updated"})
    /\ UNCHANGED <<variant, entry, args, config, sync, yresp, fitness, data,
                   latest_workout, files, retval, activities>>

\* src/.github/workflows/sync.py, lines 256-262: IntervalsSync has neither a
\* save_to_file nor a publish_to_github attribute there, so the first
\* delivery call raises AttributeError
WorkflowOutput ==
    /\ pc = "output1" /\ variant = "workflow"
    /\ Abort("AttributeError")
    /\ UNCHANGED <<variant, entry, args, config, sync, reqs, yresp, fitness, data,
                   latest_workout, files, remote, console, retval, activities>>

-----------------------------------------------------------------------------
(* publish_to_github called on its own *)

CallPublish ==
    /\ pc = "call_publish"
    /\ \E probe \in ProbeResponses(sync), put \in PutResponses(sync, WORKOUT_PATH) :
        LET o == PublishToGithub(variant, sync, latest_workout, WORKOUT_PATH, probe, put)
        IN /\ reqs' = reqs \o o.exchanges
           /\ remote' = IF Len(o.exchanges) = 2 /\ Accepted(put)
                        THEN Store(remote, WORKOUT_PATH, latest_workout) ELSE remote
           /\ retval' = o.ret
           /\ IF o.exc # "" THEN Abort(o.exc)
              ELSE pc' = "returned" /\ raised' = raised
    /\ UNCHANGED <<variant, entry, args, config, sync, yresp, fitness, data,
                   latest_workout, files, console, activities>>

-----------------------------------------------------------------------------
(* Specifications *)

Next ==
    \/ MainConfig
    \/ FetchProfile
    \/ FetchActivities
    \/ FetchWellness
    \/ FetchYesterday(YesterdayBodiesRun)
    \/ FetchEvents
    \/ FetchLatestWorkout
    \/ SaveSummary
    \/ SaveWorkout
    \/ PublishSummary
    \/ PublishWorkout
    \/ WorkflowOutput
    \/ CallPublish

Spec == Init /\ [][Next]_vars

TypeOK ==
    /\ variant \in {"sync", "workflow"}
    /\ pc \in {"config", "profile", "activities", "wellness", "yesterday", "events",
               "workout", "output1", "output2", "done", "aborted", "call_publish", "returned"}
    /\ Len(reqs) <= 10

-----------------------------------------------------------------------------
(* The fitness step on every yesterday record: a run of main() that has      *)
(* fetched profile, activities and window wellness and now fetches yesterday *)

FullSync ==
    IntervalsSyncInit(FullCreds.athlete_id, FullCreds.intervals_key,
                      FullCreds.github_token, FullCreds.github_repo)

InitFitness ==
    /\ entry = "main"
    /\ variant \in {"sync", "workflow"}
    /\ args = FullCreds @@ [output |-> None, anonymize |-> TRUE]
    /\ config = Without(FullCreds, CredFields)
    /\ sync = FullSync
    /\ pc = "yesterday"
    /\ reqs = <<IntervalsExchange(FullSync, "", "", Http(200, Body("dict", <<>>))),
                IntervalsExchange(FullSync, "activities", "oldest&newest",
                                  Http(200, Body("list", <<>>))),
                IntervalsExchange(FullSync, "wellness", "oldest&newest",
                                  Http(200, Body("list", <<>>)))>>
    /\ yresp = NoResp
    /\ fitness = NoFitness
    /\ data = NoDoc
    /\ latest_workout = EmptyDoc
    /\ files = {}
    /\ remote = {}
    /\ raised = ""
    /\ console = {}
    /\ retval = ""
    /\ activities = <<>>

NextFitness == FetchYesterday(YesterdayBodiesAll)

SpecFitness == InitFitness /\ [][NextFitness]_vars

-----------------------------------------------------------------------------
(* The summary step on every list of activities: collect_training_data(days, *)
(* anonymize) called on a constructed object has fetched profile,            *)
(* activities, wellness and yesterday's record and now fetches the events    *)
(* and assembles the document.                                               *)

\* 450 s is 0.125 h, a quotient on a half hundredth
MovingTimes == {JAbsent, JNull, JNum(3600), JNum(1800), JNum(450)}
TrainingLoads == {JAbsent, JNull, JNum(0), JNum(50), JNum(25)}
ActivityTypes == {RIDE, VIRTUAL_RIDE}

\* the fields that vary from one activity to the next
ActivityChoices == [type : ActivityTypes, mt : MovingTimes, load : TrainingLoads]

\* the list of n activities whose i-th entry carries the choice c[i]
ActivityList(n, c) == [i \in 1..n |-> ActivityAt(i, c[i].type, c[i].mt, c[i].load)]

InitSummary ==
    /\ entry = "collect"
    /\ variant \in {"sync", "workflow"}
    /\ \E a \in BOOLEAN : args = FullCreds @@ [output |-> None, anonymize |-> a]
    /\ config = Without(FullCreds, CredFields)
    /\ sync = FullSync
    /\ pc = "events"
    /\ \E n \in 0..MaxActivities : \E c \in [1..n -> ActivityChoices] :
         activities = ActivityList(n, c)
    /\ reqs = <<IntervalsExchange(FullSync, "", "", Http(200, Body("dict", <<>>))),
                IntervalsExchange(FullSync, "activities", "oldest&newest",
                                  Http(200, Body("list", activities))),
                IntervalsExchange(FullSync, "wellness", "oldest&newest",
                                  Http(200, Body("list", <<>>))),
                IntervalsExchange(FullSync, "wellness", "yesterday",
                                  Http(200, Body("list", <<>>)))>>
    /\ yresp = Http(200, Body("list", <<>>))
    /\ fitness = Fitness(IntervalsGet(yresp))
    /\ data = NoDoc
    /\ latest_workout = EmptyDoc
    /\ files = {}
    /\ remote = {}
    /\ raised = ""
    /\ console = {}
    /\ retval = ""

NextSummary == FetchEvents

SpecSummary == InitSummary /\ [][NextSummary]_vars

-----------------------------------------------------------------------------
(* Vocabulary of the properties *)

\* the exchanges with the destination store
IsProbe(e) == e.method = "GET" /\ "params" \notin DOMAIN e
IsPut(e) == e.method = "PUT"
HasSha(e) == "sha" \in DOMAIN e.payload

\* the probe saw an existing object and its version token
ProbeFoundSha(resp) ==
    /\ ~resp.neterr /\ resp.status = 200 /\ resp.parsable
    /\ resp.body.sha.t = "str" /\ resp.body.sha.v > 0

\* the probe saw that there is no object (a status other than 200)
ProbeFoundNone(resp) == ~resp.neterr /\ resp.status # 200

\* the lookup failed: it raised, or returned a status other than 200
LookupFailed(resp) == resp.neterr \/ resp.status # 200

\* the write was rejected: the PUT returned a non-success status
WriteRejected(resp) == ~resp.neterr /\ resp.status \notin {200, 201}

\* a source call failed: non-success status, network failure, unparsable body
SourceFailed(resp) == resp.neterr \/ resp.status >= 400 \/ ~resp.parsable

-----------------------------------------------------------------------------
(* Properties *)

\* C1: every PUT of publish_to_github follows its GET probe of the same
\* path; it carries exactly the sha that probe observed when the probe
\* returned 200 with a sha, and has no sha key when the probe returned a
\* status other than 200.
C1_ShaFollowsProbe ==
    \A i \in 1..Len(reqs) :
        IsPut(reqs[i]) =>
            /\ i > 1 /\ IsProbe(reqs[i-1]) /\ reqs[i-1].url = reqs[i].url
            /\ ProbeFoundSha(reqs[i-1].resp) =>
                   HasSha(reqs[i]) /\ reqs[i].payload.sha = reqs[i-1].resp.body.sha
            /\ ProbeFoundNone(reqs[i-1].resp) => ~HasSha(reqs[i])

\* C1 witness: one run has sent a PUT with the probed sha and a PUT without
\* sha after a 404 probe
C1_Witness ==
    /\ \E i \in 2..Len(reqs) :
         IsPut(reqs[i]) /\ ProbeFoundSha(reqs[i-1].resp) /\ HasSha(reqs[i])
    /\ \E i \in 2..Len(reqs) :
         IsPut(reqs[i]) /\ ProbeFoundNone(reqs[i-1].resp) /\ ~HasSha(reqs[i])

\* C2: after a PUT that returned a non-success status, publish_to_github has
\* not returned normally (an exception left it and ended the run) and no
\* success line was printed.
C2_RejectedWriteFails ==
    \A i \in 1..Len(reqs) :
        (IsPut(reqs[i]) /\ WriteRejected(reqs[i].resp)) =>
            /\ raised # ""
            /\ pc = "aborted"
            /\ "successfully updated" \notin console

\* C3: a failed lookup (the GET probe raised or returned a non-200 status)
\* does not end the publish: no exception of the probe leaves it, and the
\* PUT to the same path is issued next, without a sha key.
C3_LookupFailureNonFatal ==
    \A i \in 1..Len(reqs) :
        (IsProbe(reqs[i]) /\ LookupFailed(reqs[i].resp)) =>
            /\ i < Len(reqs)
            /\ IsPut(reqs[i+1]) /\ reqs[i+1].url = reqs[i].url
            /\ ~HasSha(reqs[i+1])

\* C3 witness: a probe that raised and a probe that returned 404 were each
\* followed by an accepted PUT, and the publish returned
C3_Witness ==
    /\ \E i \in 1..(Len(reqs) - 1) :
         IsProbe(reqs[i]) /\ reqs[i].resp.neterr /\ Accepted(reqs[i+1].resp)
    /\ \E i \in 1..(Len(reqs) - 1) :
         IsProbe(reqs[i]) /\ ~reqs[i].resp.neterr /\ reqs[i].resp.status = 404
         /\ Accepted(reqs[i+1].resp)
    /\ pc = "done"

\* the response of the latest exchange
LastResp(q) == q[Len(q)].resp

\* C4: the latest-workout call never ends the run: whatever the source
\* answers, main goes on to the delivery step with no exception raised, and
\* when the call failed (non-success status, network failure, unparsable
\* body) the document is the empty result {}.
C4_LatestWorkoutNeverRaises ==
    [][pc = "workout" =>
          /\ pc' = "output1"
          /\ raised' = ""
          /\ SourceFailed(LastResp(reqs')) => latest_workout' = EmptyDoc]_vars

\* C4 witness: the latest-workout call failed at the network and the run
\* stands at the delivery step with the empty document
C4_Witness ==
    /\ entry = "main" /\ pc = "output1" /\ Len(reqs) = 6
    /\ reqs[6].resp.neterr
    /\ latest_workout = EmptyDoc
    /\ raised = ""

\* the try block of the fitness step ended by an exception
FitnessStepRaised(resp) == FitnessTry(IntervalsGet(resp)).exc

\* C5: the fitness step never ends the run; when anything in it raised, ctl,
\* atl, ramp_rate and tsb are all null, and the run goes on to the events
\* fetch, whose success returns the summary document with these nulls.
C5_FitnessFailureDegrades ==
    [][/\ pc = "yesterday" =>
            /\ pc' = "events"
            /\ raised' = ""
            /\ FitnessStepRaised(yresp') => fitness' = NoFitness
       /\ (pc = "events" /\ pc' = "workout") => data'.fitness = fitness]_vars

\* C5 witness: the decay raised on a string rampRate after ctl and atl had
\* been computed, and the summary document was returned with four nulls
C5_Witness ==
    /\ pc = "workout"
    /\ ~SourceFailed(yresp)
    /\ FitnessStepRaised(yresp)
    /\ yresp.body.items[1].ctl = JNum(5000)
    /\ data.fitness = NoFitness

\* the calls of collect_training_data whose failure is not caught: profile,
\* activities, window wellness, events (the 1st, 2nd, 3rd and 5th request)
SurfacingCalls == {1, 2, 3, 5}

\* C6: when the profile, activities, window-wellness or events call fails,
\* the error leaves main at once: the failed request is the last one made
\* (no retry, no later step), the run is aborted with that error, and no
\* file is written and nothing is published.
C6_UpstreamErrorSurfaces ==
    \A i \in SurfacingCalls :
        (entry = "main" /\ i <= Len(reqs) /\ SourceFailed(reqs[i].resp)) =>
            /\ Len(reqs) = i
            /\ pc = "aborted"
            /\ raised \in {"HTTPError", "ConnectionError", "JSONDecodeError"}
            /\ files = {} /\ remote = {}
            /\ data = NoDoc

\* C6 witness: the events call returned 500 after four good calls and the
\* run is aborted with nothing delivered
C6_Witness ==
    /\ entry = "main" /\ Len(reqs) = 5
    /\ ~reqs[5].resp.neterr /\ reqs[5].resp.status = 500
    /\ pc = "aborted" /\ raised = "HTTPError"
    /\ files = {} /\ remote = {}

\* the run of main has ended
Ended == pc \in {"done", "aborted"}

\* both documents are at the configured destination
BothDelivered ==
    LET both == {[path |-> SUMMARY_PATH, content |-> data],
                 [path |-> WORKOUT_PATH, content |-> latest_workout]}
    IN IF Truthy(args.output) THEN files = both ELSE remote = both

\* the destination took every write of the run: the credentials it needs
\* are there, no PUT was rejected or lost, no file write failed
DestinationTookWrites ==
    /\ Truthy(args.output) \/ ~DestCredMissing(sync)
    /\ \A i \in 1..Len(reqs) : IsPut(reqs[i]) => Accepted(reqs[i].resp)
    /\ raised # "OSError"

\* C7: main runs summary fetch, latest-workout fetch, delivery in this order
\* (nothing is written or sent to the destination before the sixth source
\* call has been made), and every run whose summary fetch succeeded ends as
\* a success with both documents delivered to the configured destination,
\* an empty latest-workout document included.  The destination is taken
\* to accept every write, which is the case most favourable to the claim.
C7_BothDeliveredAfterFetches ==
    entry = "main" =>
        /\ (files # {} \/ remote # {} \/ \E i \in 1..Len(reqs) : "params" \notin DOMAIN reqs[i])
               => (Len(reqs) >= 6 /\ \A i \in 1..6 : "params" \in DOMAIN reqs[i])
        /\ (Ended /\ data # NoDoc /\ DestinationTookWrites)
               => (pc = "done" /\ raised = "" /\ BothDelivered)

\* a credential the run needs is missing after the resolution of lines 230-233
SourceCredRequiredMissing == entry = "main" /\ pc # "config" /\ SourceCredMissing(sync)
DestCredRequiredMissing ==
    entry = "main" /\ pc # "config" /\ ~Truthy(args.output) /\ DestCredMissing(sync)

\* C8: a run that lacks a required credential sends no request built from
\* the missing value (no source request without athlete id or API key, no
\* destination request without token or repository), and when it has ended
\* it has ended by the configuration error, not as a success.
C8_MissingCredentialRejected ==
    /\ SourceCredRequiredMissing =>
           /\ \A i \in 1..Len(reqs) : "params" \notin DOMAIN reqs[i]
           /\ Ended => (pc = "aborted" /\ raised = "ValueError")
    /\ DestCredRequiredMissing =>
           /\ \A i \in 1..Len(reqs) : "params" \in DOMAIN reqs[i]
           /\ Ended => (pc = "aborted" /\ raised \in {"ValueError", "HTTPError",
                                                      "ConnectionError", "JSONDecodeError"})

\* the yesterday call returned a list: its record, or no record at all
YesterdayReturnedList == ~SourceFailed(yresp) /\ yresp.body.shape = "list"
YesterdayRecordAbsent == YesterdayReturnedList /\ yresp.body.items = <<>>
YesterdayHasRecord == YesterdayReturnedList /\ Len(yresp.body.items) > 0
YesterdayRecord == yresp.body.items[1]

\* a field of the record is missing: no such key, or null
Missing(y) == y.t \in {"absent", "null"}

\* C9: in the fitness snapshot, ctl and tsb are null when yesterday's record
\* is absent or has no ctl; tsb is non-null exactly when ctl and atl both
\* are, and then tsb is ctl - atl to the hundredth.
C9_TsbNullness ==
    pc = "events" =>
        /\ (YesterdayRecordAbsent \/ (YesterdayHasRecord /\ Missing(YesterdayRecord.ctl)))
               => (fitness.ctl = JNull /\ fitness.tsb = JNull)
        /\ (fitness.tsb # JNull) <=> (fitness.ctl # JNull /\ fitness.atl # JNull)
        /\ (fitness.tsb # JNull) =>
               (fitness.tsb.t = "num" /\ fitness.tsb.v = fitness.ctl.v - fitness.atl.v)

\* C9 witness: a record with ctl 50.00 and atl 37.50 gave tsb 16.31
C9_Witness ==
    /\ pc = "events" /\ YesterdayHasRecord
    /\ YesterdayRecord.ctl = JNum(5000) /\ YesterdayRecord.atl = JNum(3750)
    /\ fitness.ctl = JNum(4882) /\ fitness.atl = JNum(3251)
    /\ fitness.tsb = JNum(1631)

\* C10: when the fitness step ran without exception on a record, each of ctl,
\* atl, rampRate that is a number decays to round(value * e^(-1/42), 2)
\* (e^(-1/7) for atl), and a decayed value is null only when yesterday's
\* value is missing.
C10_DecayOfEveryNumber ==
    (pc = "events" /\ YesterdayHasRecord /\ ~FitnessStepRaised(yresp)) =>
        /\ YesterdayRecord.ctl.t = "num" =>
               fitness.ctl = JNum(RoundMul(YesterdayRecord.ctl.v, CTL_DECAY))
        /\ YesterdayRecord.atl.t = "num" =>
               fitness.atl = JNum(RoundMul(YesterdayRecord.atl.v, ATL_DECAY))
        /\ YesterdayRecord.rampRate.t = "num" =>
               fitness.ramp_rate = JNum(RoundMul(YesterdayRecord.rampRate.v, CTL_DECAY))
        /\ fitness.ctl = JNull => Missing(YesterdayRecord.ctl)
        /\ fitness.atl = JNull => Missing(YesterdayRecord.atl)
        /\ fitness.ramp_rate = JNull => Missing(YesterdayRecord.rampRate)

\* the latest-workout call (the sixth request of a run) got a successful response
LatestSucceeded == entry = "main" /\ Len(reqs) >= 6 /\ ~SourceFailed(reqs[6].resp)
LatestBody == reqs[6].resp.body

\* C11: on every successful response collect_latest_workout returns the first
\* element of a non-empty list (whatever the element is), the object itself
\* when the response is a single object, and the empty result {} for every
\* other response (empty list, null, a scalar).
C11_LatestWorkoutMapping ==
    LatestSucceeded =>
        IF LatestBody.shape = "list" /\ Len(LatestBody.items) > 0
        THEN latest_workout = LatestBody.items[1]
        ELSE IF LatestBody.shape = "dict" /\ Len(LatestBody.items) > 0
        THEN latest_workout = LatestBody.items[1]
        ELSE latest_workout = EmptyDoc

\* the events call of the summary step was answered without failure
EventsSucceeded ==
    /\ Len(reqs) >= 5
    /\ reqs[5].params = "oldest&newest"
    /\ ~SourceFailed(reqs[5].resp)
    /\ pc # "events"

\* C12: with anonymize on, _format_activities turns every id into the
\* position label activity_<n> (n counted from 1 in upstream order) and
\* replaces the name by "Training Session" unless the type contains
\* "Virtual", whose real name is kept; with anonymize off ids and names are
\* passed through; types and order are preserved either way.
C12_AnonymizeActivities ==
    pc = "workout" =>
        LET out == data.recent_activities
        IN /\ Len(out) = Len(activities)
           /\ \A i \in 1..Len(activities) :
                /\ out[i].type = activities[i].type
                /\ out[i].date = activities[i].start_date_local
                /\ IF args.anonymize
                   THEN /\ out[i].id = ActivityLabel(i)
                        /\ activities[i].type = RIDE => out[i].name = TrainingSession
                        /\ activities[i].type = VIRTUAL_RIDE
                              => out[i].name = activities[i].name
                   ELSE /\ out[i].id = activities[i].id
                        /\ out[i].name = activities[i].name

C12_Witness ==
    /\ pc = "workout"
    /\ args.anonymize
    /\ Len(activities) = 2
    /\ activities[1].type = RIDE
    /\ activities[2].type = VIRTUAL_RIDE
    /\ data.recent_activities[1].id = ActivityLabel(1)
    /\ data.recent_activities[1].name = TrainingSession
    /\ data.recent_activities[2].id = ActivityLabel(2)
    /\ data.recent_activities[2].name = JStr(302)

\* the totals the summary is said to carry: a missing or null moving_time
\* and a missing, null or zero load count as 0
SecondsOrZero(act) == IF act.moving_time.t = "num" THEN act.moving_time.v ELSE 0
LoadOrZero(act) == IF act.icu_training_load.t = "num" THEN act.icu_training_load.v ELSE 0
TotalOf(acts, Term(_)) ==
    LET f[i \in 0..Len(acts)] == IF i = 0 THEN 0 ELSE f[i - 1] + Term(acts[i])
    IN f[Len(acts)]

\* C13: once the five fetches have succeeded the summary's quick_stats hold
\* the number of activities, the total moving time in hours rounded to two
\* decimals with a missing or null moving_time counting as 0, and the sum of
\* the present non-zero training loads.
C13_QuickStatsTotals ==
    EventsSucceeded =>
        /\ pc = "workout"
        /\ data.quick_stats.total_activities = Len(activities)
        /\ data.quick_stats.total_training_hours
              = RoundHours(TotalOf(activities, SecondsOrZero))
        /\ data.quick_stats.total_tss = TotalOf(activities, LoadOrZero)

====
